---- MODULE Spec2Model ----
(***************************************************************************)
(* osm2rail: segmentation of railway ways at junction nodes and the length *)
(* of a segment (src/src/lib.rs).                                          *)
(*                                                                         *)
(*   Spec          OsmRailway::to_railway_segments on one way and an       *)
(*                 arbitrary junction set, one step per item pulled from   *)
(*                 the split_inclusive/map iterator chain.                 *)
(*   SpecRailways  segment_railways on a whole collection: the counting    *)
(*                 loops of get_used_node_counts, the count > 1 filter and *)
(*                 the flat_map over the ways.                             *)
(*   SpecDistance  RailwaySegment::get_distance: the filter_map over the   *)
(*                 node ids, the fold over consecutive points, and the     *)
(*                 node store growing by one node between two calls.       *)
(*   SpecIngest    Filter::collect_filtered delivering the ways of a file  *)
(*                 in the order the parallel reduce joins them, then       *)
(*                 segment_railways on the delivered collection.           *)
(***************************************************************************)
EXTENDS Integers, Sequences, FiniteSets, TLC

\* ------------------------------------------------------------------------
\* Bounds of the model
\* ------------------------------------------------------------------------
\* node identifiers are 1..MaxNode
MaxNode == 3
\* longest node sequence of the way given to to_railway_segments
MaxLen == 4

\* segment_railways: number of ways of a collection, length of their node
\* sequences, and their node identifiers 1..MaxRailNode
MaxWays == 2
MaxRailLen == 2
MaxRailNode == 2
\* get_distance: longest node sequence of a segment (its nodes are in Nodes)
MaxSegLen == 3

Nodes == 1..MaxNode
RailNodes == 1..MaxRailNode

\* all sequences over S of length 0..n
SeqsUpTo(S, n) == UNION {[1..k -> S] : k \in 0..n}

\* Option<T>: <<>> is None, <<x>> is Some(x)
None == <<>>
Some(x) == <<x>>

VARIABLES
    pc,                \* position of the running function
    way_id,            \* self.way_id of the way being segmented
    node_ids,          \* self.node_ids of the way being segmented
    intersections,     \* the junction set (HashSet<i64>)
    v,                 \* SplitInclusive.v: the part of the slice not yet yielded
    finished,          \* SplitInclusive.finished
    index,             \* `index`: number of calls of the split predicate so far
    previous_node,     \* `previous_node`: Option<i64>
    railway_segments,  \* the Vec<RailwaySegment> being collected
    railways,          \* segment_railways: the Vec<OsmRailway> it is given
    node_use_count,    \* get_used_node_counts: HashMap<i64, i64>
    r_i,               \* position of the iteration over the railways
    n_i,               \* position of the iteration over railway.node_ids
    segmented,         \* segment_railways: the Vec<RailwaySegment> it returns
    seg_node_ids,      \* get_distance: self.node_ids of the RailwaySegment
    node_locations,    \* get_distance: the HashMap<i64, OsmNode> it is given
    fm_i,              \* position of the filter_map over self.node_ids
    found_count,       \* `found_count`
    not_found_count,   \* `not_found_count`
    ls,                \* `ls`: the Vec<Point> collected so far
    z_i,               \* position of the fold over ls.iter().zip(ls.iter().skip(1))
    dist,              \* the accumulator of the fold, then the returned f64
    prev_dist,         \* Option: the distance returned before the store grew
    added,             \* Option: the node id the store grew by
    file,              \* collect_filtered: the railway ways of the file, in file order
    pending,           \* positions of the file whose element is not yet reduced
    acc                \* the Option<Vec<OsmRailway>> the reduce has built so far

segVars == <<way_id, node_ids, v, finished, index, previous_node, railway_segments>>
railVars == <<railways, node_use_count, r_i, n_i, segmented>>
distVars == <<seg_node_ids, node_locations, fm_i, found_count, not_found_count,
              ls, z_i, dist, prev_dist, added>>
fileVars == <<file, pending, acc>>
vars == <<pc, intersections, segVars, railVars, distVars, fileVars>>

\* ------------------------------------------------------------------------
\* OsmRailway::to_railway_segments
\* ------------------------------------------------------------------------
\* struct RailwaySegment; `name` is a copy of the way's name exactly as
\* way_id is a copy of the way's id, and is left out
RailwaySegment(id, nodes) == [way_id |-> id, node_ids |-> nodes]

\* should_split with `||` for `&&`
should_split_Or(idx, n, junctions) == idx # 0 \/ n \in junctions

\* should_split without the test of the index
should_split_AnyIndex(idx, n, junctions) == n \in junctions

\* should_split with `index > 1` for `index != 0`
should_split_AfterSecond(idx, n, junctions) == idx > 1 /\ n \in junctions

\* the closure given to split_inclusive, called with `index` = idx
should_split(idx, n, junctions) == idx # 0 /\ n \in junctions

\* a split that yields the empty slice once, as slice::split does
SplitInclusiveNew_NotFinished(slice) == [v |-> slice, finished |-> FALSE]

\* SplitInclusive::new: an empty slice yields no subslice at all
SplitInclusiveNew(slice) == [v |-> slice, finished |-> (slice = <<>>)]

\* SplitInclusive::next, the length of the subslice it yields: through the
\* first element the predicate accepts, or the whole rest. The predicate is
\* called once on each element of the yielded subslice, the j-th call seeing
\* `index` = idx + j - 1.
SplitInclusiveLen(slice, idx, junctions) ==
    LET hits == {j \in 1..Len(slice) : should_split(idx + j - 1, slice[j], junctions)}
    IN  IF hits = {} THEN Len(slice)
        ELSE CHOOSE j \in hits : \A k \in hits : j <= k

\* nodes.first() for nodes.last()
LastCloned_First(nodes) == IF nodes = <<>> THEN None ELSE Some(nodes[1])

\* nodes.last().cloned()
LastCloned(nodes) == IF nodes = <<>> THEN None ELSE Some(nodes[Len(nodes)])

\* the map closure without the push of previous_node
SegmentNodeIds_NoPrefix(prev, nodes) == nodes

\* the node list the map closure builds from a subslice
SegmentNodeIds(prev, nodes) == IF prev # None THEN <<prev[1]>> \o nodes ELSE nodes

\* to_railway_segments with previous_node kept from the way segmented before
StartSegments_KeepPrevious(id, nodes) ==
    /\ way_id' = id
    /\ node_ids' = nodes
    /\ v' = SplitInclusiveNew(nodes).v
    /\ finished' = SplitInclusiveNew(nodes).finished
    /\ index' = 0
    /\ previous_node' = previous_node
    /\ railway_segments' = <<>>

\* the state of the iterator chain when to_railway_segments starts on a way
StartSegments(id, nodes) ==
    /\ way_id' = id
    /\ node_ids' = nodes
    /\ v' = SplitInclusiveNew(nodes).v
    /\ finished' = SplitInclusiveNew(nodes).finished
    /\ index' = 0
    /\ previous_node' = None
    /\ railway_segments' = <<>>

\* one item pulled by collect(): SplitInclusive::next, then the map closure
SplitNext ==
    /\ pc = "split"
    /\ ~finished
    /\ LET n == SplitInclusiveLen(v, index, intersections)
           nodes == SubSeq(v, 1, n)
       IN  /\ finished' = (n = Len(v))
           /\ v' = SubSeq(v, n + 1, Len(v))
           /\ index' = index + n
           /\ railway_segments' = Append(railway_segments,
                  RailwaySegment(way_id, SegmentNodeIds(previous_node, nodes)))
           /\ previous_node' = LastCloned(nodes)
    /\ UNCHANGED <<pc, way_id, node_ids, intersections, railVars, distVars,
                   fileVars>>

\* the iterator is exhausted: collect() ends and railway_segments is returned
Collect ==
    /\ pc = "split"
    /\ finished
    /\ pc' = "returned"
    /\ UNCHANGED <<intersections, segVars, railVars, distVars, fileVars>>

\* ------------------------------------------------------------------------
\* OsmRailway::get_used_node_counts and segment_railways
\* ------------------------------------------------------------------------
\* struct OsmRailway; `name` and `tags` play no part in the segmentation
OsmRailway(id, nodes) == [way_id |-> id, node_ids |-> nodes]

\* HashMap::new()
EmptyMap == [n \in {} |-> 0]

\* or_insert(1) for or_insert(0)
CountEntry_InsertOne(map, n) ==
    LET old == IF n \in DOMAIN map THEN map[n] ELSE 1
    IN  [m \in DOMAIN map \cup {n} |-> IF m = n THEN old + 1 ELSE map[m]]

\* let count = node_use_count.entry(*node_id).or_insert(0); *count += 1;
CountEntry(map, n) ==
    LET old == IF n \in DOMAIN map THEN map[n] ELSE 0
    IN  [m \in DOMAIN map \cup {n} |-> IF m = n THEN old + 1 ELSE map[m]]

\* node_counts.iter().filter(|(_, count)| **count > 1).map(|(node_id, _)| *node_id).collect()
FilterCounts(map) == {n \in DOMAIN map : map[n] > 1}

\* the body of the inner loop of get_used_node_counts, for one node_id
CountNode ==
    /\ pc = "count"
    /\ r_i <= Len(railways)
    /\ n_i <= Len(railways[r_i].node_ids)
    /\ node_use_count' = CountEntry(node_use_count, railways[r_i].node_ids[n_i])
    /\ n_i' = n_i + 1
    /\ UNCHANGED <<pc, intersections, segVars, railways, r_i, segmented, distVars,
                   fileVars>>

\* the inner loop ends: the outer loop takes the next railway
CountNextRailway ==
    /\ pc = "count"
    /\ r_i <= Len(railways)
    /\ n_i > Len(railways[r_i].node_ids)
    /\ r_i' = r_i + 1
    /\ n_i' = 1
    /\ UNCHANGED <<pc, intersections, segVars, railways, node_use_count, segmented, distVars,
                   fileVars>>

\* get_used_node_counts returns node_use_count
CountReturn ==
    /\ pc = "count"
    /\ r_i > Len(railways)
    /\ pc' = "filter"
    /\ UNCHANGED <<intersections, segVars, railVars, distVars, fileVars>>

\* segment_railways: `let intersections = ...collect()`, then railways.into_iter()
FilterIntersections ==
    /\ pc = "filter"
    /\ intersections' = FilterCounts(node_use_count)
    /\ r_i' = 1
    /\ pc' = "flat_map"
    /\ UNCHANGED <<segVars, railways, node_use_count, n_i, segmented, distVars,
                   fileVars>>

\* flat_map takes the next railway and calls to_railway_segments on it
FlatMapNext ==
    /\ pc = "flat_map"
    /\ r_i <= Len(railways)
    /\ StartSegments(railways[r_i].way_id, railways[r_i].node_ids)
    /\ pc' = "split"
    /\ UNCHANGED <<intersections, railVars, distVars, fileVars>>

\* the returned segments put in front of the collected ones
FlatMapExtend_Prepend ==
    /\ pc = "returned"
    /\ segmented' = railway_segments \o segmented
    /\ r_i' = r_i + 1
    /\ pc' = "flat_map"
    /\ UNCHANGED <<intersections, segVars, railways, node_use_count, n_i, distVars,
                   fileVars>>

\* flat_map hands the returned segments on, in order, to the collected Vec
FlatMapExtend ==
    /\ pc = "returned"
    /\ segmented' = segmented \o railway_segments
    /\ r_i' = r_i + 1
    /\ pc' = "flat_map"
    /\ UNCHANGED <<intersections, segVars, railways, node_use_count, n_i, distVars,
                   fileVars>>

\* no railway is left: segment_railways returns
SegmentReturn ==
    /\ pc = "flat_map"
    /\ r_i > Len(railways)
    /\ pc' = "done"
    /\ UNCHANGED <<intersections, segVars, railVars, distVars, fileVars>>

\* the collection of test_segment_railways
TestRailways ==
    << OsmRailway(1, <<1, 2, 3, 6, 8, 9>>),
       OsmRailway(2, <<2, 3>>),
       OsmRailway(3, <<4, 5, 6, 7>>) >>

\* collections of at most MaxWays ways; a way's id is its position
RailwayCollections ==
    { [i \in 1..k |-> OsmRailway(i, seqs[i])] :
        k \in 0..MaxWays, seqs \in [1..MaxWays -> SeqsUpTo(RailNodes, MaxRailLen)] }

\* ------------------------------------------------------------------------
\* f64 arithmetic on the distances that arise
\* ------------------------------------------------------------------------
\* The node coordinates of the model lie on the equator at longitudes 0, 90
\* and 180 degrees. Haversine::distance (geo: R * 2 * asin(sqrt(a)), with
\* a = sin^2(dlat/2) + cos(lat1) * cos(lat2) * sin^2(dlon/2), R = 6371008.8 m),
\* evaluated in IEEE-754 binary64, gives for them, in units of 2^-29 m:
\*     dlon =   0:  0.0
\*     dlon =  90:  10007557.22101796  m =  5372766372140098   (Quarter)
\*     dlon = 180:  20015114.442035925 m = 10745532744280198 = 2 * Quarter + 2
\* (sin, sqrt and asin correctly rounded at these arguments: for dlon = 90,
\* sin(dlon/2) = 0.7071067811865475, a = 0.4999999999999999 and
\* asin(sqrt(a)) = 0.7853981633974482; for dlon = 180, a = 1.0).
\* Every distance of the model is therefore k * Quarter + e units for small
\* k and e, and is held as the record [q |-> k, u |-> e]; the arithmetic on
\* these records below is the exact binary64 arithmetic on the values.
F64(k, e) == [q |-> k, u |-> e]

\* Quarter modulo 16, from its decimal digits 5372766 372140098
QuarterMod16 == ((5372766 % 16) * (1000000000 % 16) + 372140098) % 16

\* the spacing of binary64 numbers around k * Quarter, in units of 2^-29 m:
\* 2^52 <= Quarter < 2^53 <= 2 Quarter, 3 Quarter < 2^54 <= 4 Quarter,
\* 6 Quarter < 2^55 <= 7 Quarter, 13 Quarter < 2^56
Ulp(k) == IF k <= 1 THEN 1 ELSE IF k <= 3 THEN 2 ELSE IF k <= 6 THEN 4 ELSE 8

\* a + b in binary64: the exact sum, rounded to the nearest multiple of the
\* spacing at the sum, ties to the even multiple
F64Add(a, b) ==
    LET k == a.q + b.q
        e == a.u + b.u
        U == Ulp(k)
        x == k * QuarterMod16 + e
        r == x % U
        down == F64(k, e - r)
        up == F64(k, e - r + U)
    IN  IF r = 0 THEN F64(k, e)
        ELSE IF 2 * r < U THEN down
        ELSE IF 2 * r > U THEN up
        ELSE IF ((x - r) \div U) % 2 = 0 THEN down ELSE up

\* a >= b on binary64 values
F64Ge(a, b) == a.q > b.q \/ (a.q = b.q /\ a.u >= b.u)

\* ------------------------------------------------------------------------
\* RailwaySegment::get_distance
\* ------------------------------------------------------------------------
\* struct OsmNode (degrees); `tags` plays no part in the distance
OsmNode(lat, lon) == [lat |-> lat, lon |-> lon]

\* the coordinates a node of the model can have
Coords == {OsmNode(0, 0), OsmNode(0, 90), OsmNode(0, 180)}

\* Point::new(x, y)
Point(x, y) == [x |-> x, y |-> y]

\* Haversine::distance(pt_a, pt_b), on points of Coords (see the table above)
Haversine(pt_a, pt_b) ==
    LET dlon == IF pt_b.x >= pt_a.x THEN pt_b.x - pt_a.x ELSE pt_a.x - pt_b.x
    IN  IF dlon = 0 THEN F64(0, 0)
        ELSE IF dlon = 90 THEN F64(1, 0)
        ELSE F64(2, 2)

\* a node that is not found taken to be at the origin
FilterMapClosure_Origin(locations, node_id) ==
    IF node_id \in DOMAIN locations
    THEN Some(Point(locations[node_id].lon, locations[node_id].lat))
    ELSE Some(Point(0, 0))

\* the closure of filter_map: the point of a node that is found, or None
FilterMapClosure(locations, node_id) ==
    IF node_id \in DOMAIN locations
    THEN Some(Point(locations[node_id].lon, locations[node_id].lat))
    ELSE None

\* the fold closure without the accumulator
FoldClosure_Last(d, pt_a, pt_b) == Haversine(pt_a, pt_b)

\* the closure of fold: dist + Haversine::distance(*pt_a, *pt_b)
FoldClosure(d, pt_a, pt_b) == F64Add(d, Haversine(pt_a, pt_b))

\* get_distance is called: the state of its locals
StartDistance ==
    /\ fm_i' = 1
    /\ found_count' = 0
    /\ not_found_count' = 0
    /\ ls' = <<>>
    /\ z_i' = 1
    /\ dist' = F64(0, 0)
    /\ pc' = "filter_map"

\* filter_map on the next node id: count it, and keep its point when found
FilterMapNext ==
    /\ pc = "filter_map"
    /\ fm_i <= Len(seg_node_ids)
    /\ LET pt == FilterMapClosure(node_locations, seg_node_ids[fm_i])
       IN  IF pt # None
           THEN /\ found_count' = found_count + 1
                /\ ls' = Append(ls, pt[1])
                /\ UNCHANGED not_found_count
           ELSE /\ not_found_count' = not_found_count + 1
                /\ UNCHANGED <<found_count, ls>>
    /\ fm_i' = fm_i + 1
    /\ UNCHANGED <<pc, intersections, segVars, railVars, seg_node_ids,
                   node_locations, z_i, dist, prev_dist, added, fileVars>>

\* the node ids are exhausted: ls is collected and the fold starts from 0.0
FilterMapCollect ==
    /\ pc = "filter_map"
    /\ fm_i > Len(seg_node_ids)
    /\ pc' = "fold"
    /\ z_i' = 1
    /\ dist' = F64(0, 0)
    /\ UNCHANGED <<intersections, segVars, railVars, seg_node_ids, node_locations,
                   fm_i, found_count, not_found_count, ls, prev_dist, added,
                   fileVars>>

\* the fold takes the next pair (ls[i], ls[i+1]) of the zip
FoldNext ==
    /\ pc = "fold"
    /\ z_i + 1 <= Len(ls)
    /\ dist' = FoldClosure(dist, ls[z_i], ls[z_i + 1])
    /\ z_i' = z_i + 1
    /\ UNCHANGED <<pc, intersections, segVars, railVars, seg_node_ids,
                   node_locations, fm_i, found_count, not_found_count, ls,
                   prev_dist, added, fileVars>>

\* the zip is exhausted: get_distance returns dist
FoldReturn ==
    /\ pc = "fold"
    /\ z_i + 1 > Len(ls)
    /\ pc' = "dist_done"
    /\ UNCHANGED <<intersections, segVars, railVars, distVars, fileVars>>

\* map1.extend(map2) of collect_nodes, map2 holding one node
ExtendMap(map1, node_id, node) ==
    [n \in DOMAIN map1 \cup {node_id} |-> IF n = node_id THEN node ELSE map1[n]]

\* The node store holds one more node (node ids are unique in a dataset, so
\* the node is a new key), and get_distance is called on the segment again.
StoreExtend ==
    /\ pc = "dist_done"
    /\ \E n \in Nodes \ DOMAIN node_locations, c \in Coords :
          /\ node_locations' = ExtendMap(node_locations, n, c)
          /\ added' = Some(n)
    /\ prev_dist' = Some(dist)
    /\ StartDistance
    /\ UNCHANGED <<intersections, segVars, railVars, seg_node_ids, fileVars>>

\* partial maps from node ids to coordinates
NodeStores == UNION {[D -> Coords] : D \in SUBSET Nodes}

\* ------------------------------------------------------------------------
\* Filter::collect_filtered (src/src/reader.rs) under collect_all_railways
\* ------------------------------------------------------------------------
\* The map closure of par_map_reduce on one element. The elements of `file`
\* are the ways tagged railway=rail, for which the filter of
\* collect_all_railways gives Some(item); any other element gives None, which
\* ReduceOp drops.
MapOp(item) == Some(<<item>>)

\* the reduce closure of par_map_reduce, on two Option<Vec<T>>
ReduceOp(a, b) ==
    IF a # None /\ b = None THEN a
    ELSE IF a = None /\ b # None THEN b
    ELSE IF a # None /\ b # None THEN Some(a[1] \o b[1])
    ELSE None

\* opt.unwrap_or_default()
UnwrapOrDefault(opt) == IF opt # None THEN opt[1] ELSE <<>>

\* The parallel reduce joins the result for one more element of the file to
\* what it has joined so far, on either side: the elements are taken in the
\* order the worker threads finish them.
IngestNext ==
    /\ pc = "ingest"
    /\ \E i \in pending :
          /\ pending' = pending \ {i}
          /\ \/ acc' = ReduceOp(acc, MapOp(file[i]))
             \/ acc' = ReduceOp(MapOp(file[i]), acc)
    /\ UNCHANGED <<pc, intersections, segVars, railVars, distVars, file>>

\* every element is reduced: collect_filtered returns the Vec, and
\* segment_railways is called on it
IngestReturn ==
    /\ pc = "ingest"
    /\ pending = {}
    /\ railways' = UnwrapOrDefault(acc)
    /\ pc' = "count"
    /\ UNCHANGED <<intersections, segVars, node_use_count, r_i, n_i, segmented,
                   distVars, fileVars>>

\* a way's node sequence as a number, to list the ways of a file in order
RECURSIVE WayCode(_)
WayCode(nodes) ==
    IF nodes = <<>> THEN 0
    ELSE nodes[1] + (MaxRailNode + 1) * WayCode(SubSeq(nodes, 2, Len(nodes)))

\* The files: every collection whose ways stand in nondecreasing order of
\* WayCode (each other collection is a delivery of one of these), and the
\* collection of test_segment_railways.
Files ==
    {c \in RailwayCollections :
        \A i \in 1..(Len(c) - 1) : WayCode(c[i].node_ids) <= WayCode(c[i + 1].node_ids)}
    \cup {TestRailways}

\* ------------------------------------------------------------------------
\* Specifications
\* ------------------------------------------------------------------------
SegIdle ==
    /\ way_id = 0
    /\ node_ids = <<>>
    /\ v = <<>>
    /\ finished = TRUE
    /\ index = 0
    /\ previous_node = None
    /\ railway_segments = <<>>

RailIdle ==
    /\ railways = <<>>
    /\ node_use_count = EmptyMap
    /\ r_i = 1
    /\ n_i = 1
    /\ segmented = <<>>

DistIdle ==
    /\ seg_node_ids = <<>>
    /\ node_locations = EmptyMap
    /\ fm_i = 1
    /\ found_count = 0
    /\ not_found_count = 0
    /\ ls = <<>>
    /\ z_i = 1
    /\ dist = F64(0, 0)
    /\ prev_dist = None
    /\ added = None

FileIdle ==
    /\ file = <<>>
    /\ pending = {}
    /\ acc = None

\* to_railway_segments is called on a way with a junction set
Init ==
    /\ pc = "split"
    /\ way_id = 1
    /\ node_ids \in SeqsUpTo(Nodes, MaxLen)
    /\ intersections \in SUBSET Nodes
    /\ v = SplitInclusiveNew(node_ids).v
    /\ finished = SplitInclusiveNew(node_ids).finished
    /\ index = 0
    /\ previous_node = None
    /\ railway_segments = <<>>
    /\ RailIdle
    /\ DistIdle
    /\ FileIdle

Next == SplitNext \/ Collect

Spec == Init /\ [][Next]_vars

\* segment_railways is called on a collection
InitRailways ==
    /\ pc = "count"
    /\ railways \in RailwayCollections \cup {TestRailways}
    /\ node_use_count = EmptyMap
    /\ r_i = 1
    /\ n_i = 1
    /\ segmented = <<>>
    /\ intersections = {}
    /\ SegIdle
    /\ DistIdle
    /\ FileIdle

NextRailways ==
    \/ CountNode
    \/ CountNextRailway
    \/ CountReturn
    \/ FilterIntersections
    \/ FlatMapNext
    \/ SplitNext
    \/ Collect
    \/ FlatMapExtend
    \/ SegmentReturn

SpecRailways == InitRailways /\ [][NextRailways]_vars

\* get_distance is called on a segment with a node store
InitDistance ==
    /\ pc = "filter_map"
    /\ seg_node_ids \in SeqsUpTo(Nodes, MaxSegLen)
    /\ node_locations \in NodeStores
    /\ fm_i = 1
    /\ found_count = 0
    /\ not_found_count = 0
    /\ ls = <<>>
    /\ z_i = 1
    /\ dist = F64(0, 0)
    /\ prev_dist = None
    /\ added = None
    /\ intersections = {}
    /\ SegIdle
    /\ RailIdle
    /\ FileIdle

NextDistance ==
    \/ FilterMapNext
    \/ FilterMapCollect
    \/ FoldNext
    \/ FoldReturn
    \/ StoreExtend

SpecDistance == InitDistance /\ [][NextDistance]_vars

\* collect_all_railways reads a file; the identity of the reduce is None
InitIngest ==
    /\ pc = "ingest"
    /\ file \in Files
    /\ pending = 1..Len(file)
    /\ acc = None
    /\ intersections = {}
    /\ SegIdle
    /\ RailIdle
    /\ DistIdle

NextIngest ==
    \/ IngestNext
    \/ IngestReturn
    \/ CountNode
    \/ CountNextRailway
    \/ CountReturn
    \/ FilterIntersections
    \/ FlatMapNext
    \/ SplitNext
    \/ Collect
    \/ FlatMapExtend
    \/ SegmentReturn

SpecIngest == InitIngest /\ [][NextIngest]_vars

\* ------------------------------------------------------------------------
\* Properties of to_railway_segments (Spec)
\* ------------------------------------------------------------------------
Returned == pc = "returned"

\* a node list without its first node
DropFirst(nodes) == SubSeq(nodes, 2, Len(nodes))

\* the node lists of the segments one after the other, the first node of
\* every segment but the first dropped
RECURSIVE JoinSegments(_)
JoinSegments(segs) ==
    IF segs = <<>> THEN <<>>
    ELSE IF Len(segs) = 1 THEN segs[1].node_ids
    ELSE JoinSegments(SubSeq(segs, 1, Len(segs) - 1)) \o DropFirst(segs[Len(segs)].node_ids)

\* the position in the way of the first node of segment k, when consecutive
\* segments share one position
RECURSIVE SegStart(_, _)
SegStart(segs, k) ==
    IF k = 1 THEN 1
    ELSE SegStart(segs, k - 1) + Len(segs[k - 1].node_ids) - 1

\* positions i > 0 (here: 2..Len) of the way that hold a junction node
JunctionPositions(nodes, junctions, last) ==
    {i \in 2..last : nodes[i] \in junctions}

\* C1: when to_railway_segments returns, the node lists of its segments,
\* joined after dropping the first node of every segment but the first, are
\* the way's node sequence.
C1_Reconstruction ==
    Returned => JoinSegments(railway_segments) = node_ids

\* C1: a way was cut into at least three segments
C1_Witness ==
    /\ Returned
    /\ Len(railway_segments) >= 3
    /\ JoinSegments(railway_segments) = node_ids

\* C2 as claimed: the number of segments is 1 + the number of positions
\* i > 0 holding a junction node, the last position included.
C2_SplitCountClaimed ==
    Returned =>
        Len(railway_segments) =
            1 + Cardinality(JunctionPositions(node_ids, intersections, Len(node_ids)))

\* C2 amended: a way without nodes gives no segment; any other way gives
\* 1 + the number of positions i > 0, other than the last position, that
\* hold a junction node.
C2_SplitCount ==
    Returned =>
        Len(railway_segments) =
            IF node_ids = <<>> THEN 0
            ELSE 1 + Cardinality(JunctionPositions(node_ids, intersections,
                                                   Len(node_ids) - 1))

\* C2: a way cut at an inner junction whose last node is a junction too
C2_Witness ==
    /\ Returned
    /\ Len(node_ids) >= 3
    /\ node_ids[Len(node_ids)] \in intersections
    /\ Len(railway_segments) >= 2
    /\ Len(railway_segments) =
           1 + Cardinality(JunctionPositions(node_ids, intersections, Len(node_ids) - 1))

\* C4: consecutive segments k and k+1 end and start with the same node, a
\* junction node, and cover the positions p..q and q..r of the way with
\* p < q < r: they overlap in the one position q.
C4_Connectivity ==
    Returned =>
        \A k \in 1..(Len(railway_segments) - 1) :
            LET a == railway_segments[k].node_ids
                b == railway_segments[k + 1].node_ids
                p == SegStart(railway_segments, k)
                q == SegStart(railway_segments, k + 1)
                r == q + Len(b) - 1
            IN  /\ a # <<>> /\ b # <<>>
                /\ a[Len(a)] = b[1]
                /\ b[1] \in intersections
                /\ p < q /\ q < r /\ r <= Len(node_ids)
                /\ a = SubSeq(node_ids, p, q)
                /\ b = SubSeq(node_ids, q, r)

\* C4: two consecutive segments were returned, joined at a junction node
C4_Witness ==
    /\ Returned
    /\ Len(railway_segments) >= 2
    /\ LET a == railway_segments[1].node_ids
           b == railway_segments[2].node_ids
       IN  a[Len(a)] = b[1] /\ b[1] \in intersections

\* C5: every segment of a way of at least 2 nodes has at least 2 nodes, also
\* when the way's first node is a junction.
C5_MinimumLength ==
    Len(node_ids) >= 2 =>
        \A k \in 1..Len(railway_segments) : Len(railway_segments[k].node_ids) >= 2

\* C5: a way whose first node is a junction was cut, and its first segment
\* has more than one node
C5_Witness ==
    /\ Returned
    /\ Len(node_ids) >= 2
    /\ node_ids[1] \in intersections
    /\ Len(railway_segments) >= 2
    /\ Len(railway_segments[1].node_ids) >= 2

C10_Endpoints ==
    (Returned /\ Len(node_ids) >= 2) =>
        \A k \in 1..Len(railway_segments) :
            LET s == railway_segments[k].node_ids
            IN  /\ s # <<>>
                /\ \A i \in 2..(Len(s) - 1) : s[i] \notin intersections
                /\ s[1] = node_ids[1] \/ s[1] \in intersections
                /\ s[Len(s)] = node_ids[Len(node_ids)] \/ s[Len(s)] \in intersections

\* C10: a way was cut; a segment has an inner node, and the last segment
\* ends at the way's last node, which is no junction
C10_Witness ==
    /\ Returned
    /\ Len(railway_segments) >= 2
    /\ \E k \in 1..Len(railway_segments) : Len(railway_segments[k].node_ids) >= 3
    /\ node_ids[Len(node_ids)] \notin intersections

\* ------------------------------------------------------------------------
\* Properties of segment_railways (SpecRailways)
\* ------------------------------------------------------------------------
\* the occurrences of node n in the collection: (way, position) pairs
Occurrences(ways, n) ==
    {wp \in UNION {{<<w, i>> : i \in 1..Len(ways[w].node_ids)} : w \in 1..Len(ways)} :
        ways[wp[1]].node_ids[wp[2]] = n}

\* the node ids the collection uses
UsedNodes(ways) ==
    UNION {{ways[w].node_ids[i] : i \in 1..Len(ways[w].node_ids)} : w \in 1..Len(ways)}

\* the intersection set has been computed
Classified == pc \in {"flat_map", "split", "returned", "done"}

\* C3: the intersection set of segment_railways holds exactly the node ids
\* that occur more than once over the node sequences of all ways, each
\* occurrence inside one way counting.
C3_JunctionClassification ==
    Classified =>
        /\ intersections \subseteq UsedNodes(railways)
        /\ \A n \in UsedNodes(railways) :
              n \in intersections <=> Cardinality(Occurrences(railways, n)) > 1

\* C3: a node used twice by one way and by no other way is a junction, and a
\* node used once is none
C3_Witness ==
    /\ Classified
    /\ \E n \in intersections : \E w \in 1..Len(railways) :
          /\ Cardinality(Occurrences(railways, n)) = 2
          /\ \A wp \in Occurrences(railways, n) : wp[1] = w
    /\ \E n \in UsedNodes(railways) : n \notin intersections

\* the segments of way id w among segs, in order
RECURSIVE SegmentsOfWay(_, _)
SegmentsOfWay(segs, w) ==
    IF segs = <<>> THEN <<>>
    ELSE LET rest == SegmentsOfWay(SubSeq(segs, 1, Len(segs) - 1), w)
             last == segs[Len(segs)]
         IN  IF last.way_id = w THEN Append(rest, last) ELSE rest

\* the result test_segment_railways' collection must give
TestSegments ==
    << RailwaySegment(1, <<1, 2>>), RailwaySegment(1, <<2, 3>>),
       RailwaySegment(1, <<3, 6>>), RailwaySegment(1, <<6, 8, 9>>),
       RailwaySegment(2, <<2, 3>>),
       RailwaySegment(3, <<4, 5, 6>>), RailwaySegment(3, <<6, 7>>) >>

\* C7: no way is split before every node occurrence of the whole collection
\* is counted; the result lists the ways' segments in way order, each way's
\* segments in path order; and the collection of test_segment_railways has
\* the junction set {2, 3, 6} and exactly the 7 segments of TestSegments.
C7_WholeCollection ==
    /\ (pc \in {"split", "returned"} \/ segmented # <<>>) =>
          /\ DOMAIN node_use_count = UsedNodes(railways)
          /\ \A n \in UsedNodes(railways) :
                node_use_count[n] = Cardinality(Occurrences(railways, n))
    /\ \A k \in 1..(Len(segmented) - 1) : segmented[k].way_id <= segmented[k + 1].way_id
    /\ pc = "done" =>
          \A w \in 1..Len(railways) :
              LET segs == SegmentsOfWay(segmented, railways[w].way_id)
              IN  JoinSegments(segs) = railways[w].node_ids
    /\ (pc = "done" /\ railways = TestRailways) =>
          /\ intersections = {2, 3, 6}
          /\ segmented = TestSegments

\* C7: segment_railways returned on the collection of test_segment_railways
C7_Witness ==
    /\ pc = "done"
    /\ railways = TestRailways
    /\ Len(segmented) = 7

\* ------------------------------------------------------------------------
\* Properties of get_distance (SpecDistance)
\* ------------------------------------------------------------------------
DistanceReturned == pc = "dist_done"

\* the positions of the segment whose node id is in the store
ResolvedPositions(ids, locations) == {i \in 1..Len(ids) : ids[i] \in DOMAIN locations}

\* the points of the resolved node ids, in sequence order
RECURSIVE ResolvedPoints(_, _)
ResolvedPoints(ids, locations) ==
    IF ids = <<>> THEN <<>>
    ELSE LET rest == ResolvedPoints(SubSeq(ids, 1, Len(ids) - 1), locations)
             id == ids[Len(ids)]
         IN  IF id \in DOMAIN locations
             THEN Append(rest, [x |-> locations[id].lon, y |-> locations[id].lat])
             ELSE rest

\* the sum, from 0.0 and from left to right, of the distances between
\* consecutive points
RECURSIVE PathLength(_)
PathLength(pts) ==
    IF Len(pts) <= 1 THEN F64(0, 0)
    ELSE F64Add(PathLength(SubSeq(pts, 1, Len(pts) - 1)),
                Haversine(pts[Len(pts) - 1], pts[Len(pts)]))

\* C8: get_distance always goes on to its return; it returns the sum of the
\* distances between consecutive resolved nodes, the absent node ids dropped
\* (and counted as not found), which is exactly 0 when no or one node id
\* resolves.
C8_DistanceOverResolved ==
    /\ pc \in {"filter_map", "fold"} =>
          ENABLED (FilterMapNext \/ FilterMapCollect \/ FoldNext \/ FoldReturn)
    /\ DistanceReturned =>
          /\ dist = PathLength(ResolvedPoints(seg_node_ids, node_locations))
          /\ found_count = Cardinality(ResolvedPositions(seg_node_ids, node_locations))
          /\ found_count + not_found_count = Len(seg_node_ids)
          /\ found_count <= 1 => dist = F64(0, 0)

\* C8: the segment [1, 2], node 1 in the store away from the origin and node
\* 2 absent, has distance 0
C8_Witness ==
    /\ DistanceReturned
    /\ seg_node_ids = <<1, 2>>
    /\ 1 \in DOMAIN node_locations
    /\ node_locations[1].lon = 90
    /\ 2 \notin DOMAIN node_locations
    /\ dist = F64(0, 0)

\* get_distance returned again, after the store grew by node `added`
ReturnedAfterExtend == DistanceReturned /\ prev_dist # None

\* the added node stands in the segment between two nodes that resolved
\* before it was added
AddedBetweenResolved ==
    LET old == DOMAIN node_locations \ {added[1]}
    IN  \E j \in 1..Len(seg_node_ids) :
            /\ seg_node_ids[j] = added[1]
            /\ \E i \in 1..(j - 1) : seg_node_ids[i] \in old
            /\ \E k \in (j + 1)..Len(seg_node_ids) : seg_node_ids[k] \in old

JunctionsOfFile ==
    {n \in UsedNodes(file) : Cardinality(Occurrences(file, n)) > 1}

\* The segment list of a way as a function of nothing but the way's id, its
\* node sequence and a junction set: the subslices of the rest of the
\* sequence, idx predicate calls and the node `prev` behind.
RECURSIVE SegmentsFrom(_, _, _, _, _)
SegmentsFrom(id, rest, idx, prev, junctions) ==
    IF rest = <<>> THEN <<>>
    ELSE LET n == SplitInclusiveLen(rest, idx, junctions)
             nodes == SubSeq(rest, 1, n)
         IN  <<RailwaySegment(id, SegmentNodeIds(prev, nodes))>>
             \o SegmentsFrom(id, SubSeq(rest, n + 1, Len(rest)), idx + n,
                             LastCloned(nodes), junctions)

\* the segment lists of the ways of the file, one after the other in file order
RECURSIVE SegmentsOfFile(_, _)
SegmentsOfFile(ways, junctions) ==
    IF ways = <<>> THEN <<>>
    ELSE SegmentsOfFile(SubSeq(ways, 1, Len(ways) - 1), junctions)
         \o SegmentsFrom(ways[Len(ways)].way_id, ways[Len(ways)].node_ids, 0, None,
                         junctions)

\* how often each element occurs in a sequence
BagOfSeq(seq) ==
    [x \in {seq[i] : i \in 1..Len(seq)} |-> Cardinality({i \in 1..Len(seq) : seq[i] = x})]

\* the delivered collection is the file in some order
IsDelivery ==
    /\ Len(railways) = Len(file)
    /\ BagOfSeq(railways) = BagOfSeq(file)

====
